---- MODULE Spec2Model ----
(***************************************************************************)
(* Model of the quote PDF generator service (src/app/main.py): the request *)
(* schema, the document composer create_pdf_from_opportunity_data and the  *)
(* handler generate_quote_pdf with the remote store it talks to.           *)
(*                                                                         *)
(* Python values are tagged tuples: <<"NoneType">>, <<"str", s>>,          *)
(* <<"int", n>> and <<"dict", f>>.  A dict is a function whose domain is   *)
(* the set of keys it holds, so that a key that is absent and a key that   *)
(* holds None are different things.  Money is counted in hundredths, which *)
(* is exact for the two-decimal amounts used here.                         *)
(***************************************************************************)
EXTENDS Integers, Sequences, FiniteSets, TLC

VARIABLES
    ContentVersion,       \* the store's file records, in creation order
    ContentDocumentLink,  \* the store's link records, in creation order
    now,                  \* the wall clock, in whole seconds
    request,              \* per request: the GenerateQuotePdfRequest, or NoRequest
    pc,                   \* per request: where generate_quote_pdf stands
    frame,                \* per request: the handler's local variables
    calls,                \* per request: the remote calls and the render issued so far
    pending,              \* per request: calls issued and not yet returned
    response,             \* per request: the HTTP response, or NoResponse
    prior,                \* per request: the requests answered before it arrived
    compose_args,         \* arguments of a direct call of the composer
    html_content          \* the document that call composed, or NotComposed

vars == <<ContentVersion, ContentDocumentLink, now, request, pc, frame, calls,
          pending, response, prior, compose_args, html_content>>

handlerVars == <<ContentVersion, ContentDocumentLink, now, request, pc, frame,
                 calls, pending, response, prior>>

(***************************************************************************)
(* Bounds of the model.                                                    *)
(***************************************************************************)
NumRequests == 2
MaxClock == 2
MaxLines == 2

Requests == 1..NumRequests

(***************************************************************************)
(* Python values.                                                          *)
(***************************************************************************)
None == <<"NoneType">>
Str(s) == <<"str", s>>
Num(n) == <<"int", n>>
Dict(f) == <<"dict", f>>
EmptyDict == <<>>

IsNone(v) == v[1] = "NoneType"
IsDict(v) == v[1] = "dict"

\* bool(v)
Truthy(v) ==
    CASE v[1] = "NoneType" -> FALSE
      [] v[1] = "str" -> v[2] # ""
      [] v[1] = "int" -> v[2] # 0
      [] v[1] = "dict" -> DOMAIN v[2] # {}
      [] OTHER -> TRUE

\* d.get(k, default) on a dict d
Get(d, k, default) == IF k \in DOMAIN d THEN d[k] ELSE default

\* x or default
OrElse(x, default) == IF Truthy(x) THEN x ELSE default

Digit(d) == <<"0", "1", "2", "3", "4", "5", "6", "7", "8", "9">>[d + 1]

RECURSIVE Digits(_)
Digits(n) == IF n < 10 THEN Digit(n) ELSE Digits(n \div 10) \o Digit(n % 10)

\* str(v), as an f-string field without a format spec renders it
PyStr(v) ==
    CASE v[1] = "NoneType" -> "None"
      [] v[1] = "str" -> v[2]
      [] v[1] = "int" -> Digits(v[2])
      [] OTHER -> "{...}"

RECURSIVE Grouped(_)
Grouped(n) ==
    IF n < 1000 THEN Digits(n)
    ELSE Grouped(n \div 1000) \o "," \o Digit((n % 1000) \div 100)
             \o Digit((n % 100) \div 10) \o Digit(n % 10)

\* f"{x:,.2f}" of a non-negative amount given in hundredths
Money(v) ==
    Grouped(v[2] \div 100) \o "." \o Digit((v[2] % 100) \div 10) \o Digit(v[2] % 10)

(***************************************************************************)
(* GenerateQuotePdfRequest: the request schema.                            *)
(***************************************************************************)
IdPrefixLen == 3
IdSuffixLen == 15
MaxHeaderLen == 200
MaxFooterLen == 500

AlNum == {"0", "1", "2", "3", "4", "5", "6", "7", "8", "9",
          "a", "b", "c", "d", "e", "f", "g", "h", "i", "j", "k", "l", "m",
          "n", "o", "p", "q", "r", "s", "t", "u", "v", "w", "x", "y", "z",
          "A", "B", "C", "D", "E", "F", "G", "H", "I", "J", "K", "L", "M",
          "N", "O", "P", "Q", "R", "S", "T", "U", "V", "W", "X", "Y", "Z"}

\* pattern=r'^006[a-zA-Z0-9]{15}$' on an identifier given as its characters
MatchesPattern(id) ==
    /\ Len(id) = IdPrefixLen + IdSuffixLen
    /\ SubSeq(id, 1, IdPrefixLen) = <<"0", "0", "6">>
    /\ \A i \in (IdPrefixLen + 1)..Len(id) : id[i] \in AlNum

\* max_length on an Optional[str]
WithinMaxLength(v, limit) == IsNone(v) \/ Len(v[2]) <= limit

\* The errors pydantic reports for a request body.
ValidationErrors(body) ==
    (IF MatchesPattern(body.opportunityId) THEN {}
     ELSE {[type |-> "string_pattern_mismatch", loc |-> <<"body", "opportunityId">>]})
    \cup
    (IF WithinMaxLength(body.customHeader, MaxHeaderLen) THEN {}
     ELSE {[type |-> "string_too_long", loc |-> <<"body", "customHeader">>]})
    \cup
    (IF WithinMaxLength(body.customFooter, MaxFooterLen) THEN {}
     ELSE {[type |-> "string_too_long", loc |-> <<"body", "customFooter">>]})

(***************************************************************************)
(* PDF templates and the document composer.                                *)
(***************************************************************************)
TemplateNames == {"standard", "professional", "minimal"}

\* get_template_styles: the style variant a template name selects
get_template_styles(template_name) ==
    IF template_name \in TemplateNames THEN template_name ELSE "standard"

\* fields = line.get('fields', line) if isinstance(line, dict) else {}
LineFields(line) ==
    IF IsDict(line)
    THEN (IF "fields" \in DOMAIN line[2] THEN line[2]["fields"][2] ELSE line[2])
    ELSE EmptyDict

LineTotalPrice(line) == OrElse(Get(LineFields(line), "TotalPrice", Num(0)), Num(0))

\* one <tr> of the loop over quote_lines
LineRow(line) ==
    LET fields == LineFields(line)
        name == Get(fields, "Name", Str("N/A"))
        quantity == OrElse(Get(fields, "Quantity", Num(0)), Num(0))
        unit_price == OrElse(Get(fields, "UnitPrice", Num(0)), Num(0))
        total_price == LineTotalPrice(line)
    IN  [cls |-> "item",
         cells |-> <<PyStr(name), PyStr(quantity),
                     "$" \o Money(unit_price), "$" \o Money(total_price)>>]

RECURSIVE SumTotalPrice(_)
SumTotalPrice(quote_lines) ==
    IF quote_lines = <<>> THEN 0
    ELSE LineTotalPrice(Head(quote_lines))[2] + SumTotalPrice(Tail(quote_lines))

\* line_items_html once the loop has run and the total row is appended
LineItemsHtml(quote_lines) ==
    [i \in 1..Len(quote_lines) |-> LineRow(quote_lines[i])]
    \o <<[cls |-> "total-row",
          cells |-> <<"Total:", "$" \o Money(Num(SumTotalPrice(quote_lines)))>>]>>

PlaceholderRow == [cls |-> "placeholder", cells |-> <<"No line items found">>]

\* {line_items_html if quote_lines else '<tr>...No line items found...</tr>'}
TableBody(quote_lines) ==
    IF quote_lines # <<>> THEN LineItemsHtml(quote_lines) ELSE <<PlaceholderRow>>

\* opportunity_data.get(key, 'N/A')
TextField(opportunity_data, key) == Get(opportunity_data, key, Str("N/A"))

AccountName(opportunity_data) ==
    IF "Account" \in DOMAIN opportunity_data /\ IsDict(opportunity_data["Account"])
    THEN Get(Get(opportunity_data, "Account", Dict(EmptyDict))[2], "Name", Str("N/A"))
    ELSE Get(opportunity_data, "Account.Name", Str("N/A"))

\* The HTML document html_content, section by section.  The two renderings of
\* current_date and the fixed markup (page size, table head) are left out: they
\* are the same in every document.
ComposeHtml(opportunity_data, quote_lines, include_terms, template_name, custom_header, custom_footer) ==
    LET opp_name == TextField(opportunity_data, "Name")
        opp_id == TextField(opportunity_data, "Id")
        account_name == AccountName(opportunity_data)
        amount == OrElse(Get(opportunity_data, "Amount", Num(0)), Num(0))
        close_date == TextField(opportunity_data, "CloseDate")
        stage == TextField(opportunity_data, "StageName")
    IN  [title |-> "Quote for " \o PyStr(opp_name),
         styles |-> get_template_styles(template_name),
         header_section |-> IF Truthy(custom_header) THEN <<PyStr(custom_header)>> ELSE <<>>,
         h1 |-> "Quote for " \o PyStr(opp_name),
         opp_id |-> PyStr(opp_id),
         account |-> PyStr(account_name),
         stage |-> PyStr(stage),
         close_date |-> PyStr(close_date),
         amount |-> "$" \o Money(amount),
         tbody |-> TableBody(quote_lines),
         terms_section |-> IF include_terms THEN <<"Terms and Conditions">> ELSE <<>>,
         footer_section |-> IF Truthy(custom_footer) THEN <<PyStr(custom_footer)>> ELSE <<>>]

\* create_pdf_from_opportunity_data: the composed document handed to the renderer
create_pdf_from_opportunity_data(opportunity_data, quote_lines, include_terms, template_name, custom_header, custom_footer) ==
    <<"pdf", ComposeHtml(opportunity_data, quote_lines, include_terms,
                         template_name, custom_header, custom_footer)>>

(***************************************************************************)
(* The remote store.  Opportunity and QuoteLineItem are what it holds when *)
(* the service starts; the service never writes them.                      *)
(***************************************************************************)
RECURSIVE Repeat(_, _)
Repeat(c, n) ==
    IF n = 0 THEN ""
    ELSE IF n % 2 = 1 THEN c \o Repeat(c, n - 1)
    ELSE LET half == Repeat(c, n \div 2) IN half \o half

Id006(c) == <<"0", "0", "6">> \o [i \in 1..IdSuffixLen |-> c]

OppKnown == Id006("A")
OppUnknown == Id006("b")

\* the identifier as text, for interpolation into file names
RECURSIVE IdText(_)
IdText(id) == IF id = <<>> THEN "" ELSE Head(id) \o IdText(Tail(id))

Opportunity ==
    OppKnown :> [Id |-> Str(IdText(OppKnown)), Name |-> Str("Big Deal"),
                 Amount |-> Num(35050), StageName |-> Str("Prospecting"),
                 CloseDate |-> None,
                 Account |-> Dict([Id |-> Str("001A"), Name |-> Str("Acme Corp")])]

QuoteLineItem ==
    OppKnown :> <<Dict([Name |-> Str("Widget"), Quantity |-> Num(2),
                        UnitPrice |-> Num(5000), TotalPrice |-> Num(10000)]),
                  Dict([Name |-> Str("Gadget"), Quantity |-> Num(1),
                        UnitPrice |-> Num(25050), TotalPrice |-> Num(25050)])>>

\* data_api.query of the Opportunity with this Id, LIMIT 1
QueryOpportunity(id) == IF id \in DOMAIN Opportunity THEN <<Opportunity[id]>> ELSE <<>>

\* data_api.query of the QuoteLineItems whose Quote belongs to this Opportunity
QueryQuoteLineItems(id) == IF id \in DOMAIN QuoteLineItem THEN QuoteLineItem[id] ELSE <<>>

\* the record data_api.create("ContentVersion", file_data) adds: a new version of
\* a new document
NewContentVersion(files, file_data) ==
    [Id |-> <<"068", Len(files) + 1>>, ContentDocumentId |-> <<"069", Len(files) + 1>>,
     fields |-> file_data]

\* data_api.query of the ContentVersion with this Id
QueryContentVersion(files, id) == SelectSeq(files, LAMBDA f : f.Id = id)

\* the record data_api.create("ContentDocumentLink", cdl_data) adds
NewContentDocumentLink(links, cdl_data) ==
    [Id |-> <<"06A", Len(links) + 1>>, fields |-> cdl_data]

(***************************************************************************)
(* generate_quote_pdf and the framework around it.  The handler runs       *)
(* without interruption between two awaits; a remote call is issued by one *)
(* action and returns, or raises, in another, and the store changes when a *)
(* create returns.  Requests run concurrently.                             *)
(***************************************************************************)
\* the caller context the middleware provides
client_context == [user |-> [id |-> "005USER"], instance_url |-> ""]

CallSequence ==
    <<"query Opportunity", "query QuoteLineItem", "render", "create ContentVersion",
      "query ContentVersion", "create ContentDocumentLink">>

\* ErrorResponse(...).model_dump()
ErrorResponse(message, errorCode, details) ==
    [status |-> "error", message |-> message, errorCode |-> errorCode, details |-> details]

HTTPException(status_code, detail) ==
    [type |-> "HTTPException", status_code |-> status_code, detail |-> detail]

\* an exception that is no HTTPException, raised by a collaborator
Raised(type, site) == [type |-> type, msg |-> site \o " failed", raised_by |-> site]

\* exception classes the renderer raises; none of them is an HTTPException
RendererExceptions == {"ValueError", "OSError"}

\* if not opp_result.records: raise HTTPException(404, ...)
NotFound == HTTPException(404, ErrorResponse("Opportunity not found", "NOT_FOUND", None))

\* The except clauses without "except HTTPException: raise": every exception is
\* turned into the 500.
ExceptClauses_CatchAll(e) ==
    HTTPException(500, ErrorResponse("Internal Server Error: "
                                         \o (IF "msg" \in DOMAIN e THEN e.msg ELSE "404"),
                                     "INTERNAL_ERROR",
                                     Dict([exception |-> Str(e.type)])))

\* The except clauses of the handler: what leaves generate_quote_pdf when e is raised
\* inside its try block.
ExceptClauses(e) ==
    IF e.type = "HTTPException" THEN e
    ELSE HTTPException(500, ErrorResponse("Internal Server Error: " \o e.msg,
                                          "INTERNAL_ERROR",
                                          Dict([exception |-> Str(e.type)])))

\* The framework's handler of an HTTPException: the app registers none of its own.
HttpExceptionResponse(exc) == [status |-> exc.status_code, body |-> [detail |-> exc.detail]]

\* The framework's handler of a body that fails validation: the app registers none
\* of its own.
ValidationResponse(errors) == [status |-> 422, body |-> [detail |-> errors]]

\* datetime.now().strftime("%Y%m%d_%H%M%S"): the clock reading cut to whole seconds
TicksPerSecond == 2
Timestamp(t) == Digits(t \div TicksPerSecond)

\* file_data
FileData(opp_record, opportunity_id, timestamp, pdf_bytes) ==
    LET opp_name == Get(opp_record, "Name", Str("Quote"))
    IN  [Title |-> "Quote - " \o PyStr(opp_name),
         PathOnClient |-> "Quote_" \o IdText(opportunity_id) \o "_" \o timestamp \o ".pdf",
         VersionData |-> <<"b64", pdf_bytes>>,
         OwnerId |-> client_context.user.id,
         Description |-> "Auto-generated quote PDF for Opportunity: " \o PyStr(opp_name)]

\* cdl_data with the link's two ends mixed up
CdlData_EndsMixedUp(content_document_id, opportunity_id) ==
    [ContentDocumentId |-> content_document_id, LinkedEntityId |-> content_document_id,
     ShareType |-> "V", Visibility |-> "AllUsers"]

\* cdl_data
CdlData(content_document_id, opportunity_id) ==
    [ContentDocumentId |-> content_document_id, LinkedEntityId |-> opportunity_id,
     ShareType |-> "V", Visibility |-> "AllUsers"]

\* GenerateQuotePdfResponse(...)
SuccessResponse(content_document_id, content_version_id) ==
    [status |-> 200,
     body |-> [status |-> "success",
               message |-> "PDF generated and attached to Opportunity.",
               contentDocumentId |-> content_document_id,
               contentVersionId |-> content_version_id,
               pdfUrl |-> IF client_context.instance_url # ""
                          THEN Str(client_context.instance_url \o "/" \o "doc")
                          ELSE None]]

NoResponse == [status |-> 0]
NoArgs == [called |-> FALSE]
NotComposed == <<"not composed">>

\* Request bodies: well-formed ones and one for each way of being malformed.
RequestBodies ==
    LET base == [opportunityId |-> OppKnown, includeTerms |-> FALSE,
                 templateName |-> "standard", customHeader |-> None, customFooter |-> None]
    IN  {base,
         [base EXCEPT !.opportunityId = OppUnknown],
         [base EXCEPT !.opportunityId = OppUnknown, !.includeTerms = TRUE,
                      !.customHeader = Str(Repeat("h", MaxHeaderLen)),
                      !.customFooter = Str(Repeat("f", MaxFooterLen))],
         [base EXCEPT !.opportunityId =
             <<"b", "a", "d", "-", "f", "o", "r", "m", "a", "t">>],
         [base EXCEPT !.opportunityId = SubSeq(OppKnown, 1, Len(OppKnown) - 1)],
         [base EXCEPT !.opportunityId = Append(OppKnown, "A")],
         [base EXCEPT !.opportunityId = [OppKnown EXCEPT ![Len(OppKnown)] = "-"]],
         [base EXCEPT !.opportunityId = [OppKnown EXCEPT ![1] = "a"]],
         [base EXCEPT !.customHeader = Str(Repeat("h", MaxHeaderLen + 1))],
         [base EXCEPT !.customFooter = Str(Repeat("f", MaxFooterLen + 1))]}

Init ==
    /\ ContentVersion = <<>>
    /\ ContentDocumentLink = <<>>
    /\ now = 0
    /\ request = [r \in Requests |-> [received |-> FALSE]]
    /\ pc = [r \in Requests |-> "idle"]
    /\ frame = [r \in Requests |-> <<>>]
    /\ calls = [r \in Requests |-> <<>>]
    /\ pending = [r \in Requests |-> 0]
    /\ response = [r \in Requests |-> NoResponse]
    /\ prior = [r \in Requests |-> {}]
    /\ compose_args = NoArgs
    /\ html_content = NotComposed

composerVars == <<compose_args, html_content>>

\* the handler issues a call and suspends until it returns
Issue(r, call, at) ==
    /\ calls' = [calls EXCEPT ![r] = Append(@, call)]
    /\ pending' = [pending EXCEPT ![r] = @ + 1]
    /\ pc' = [pc EXCEPT ![r] = at]

\* the request ends with the response the framework makes of the exception e
Raise(r, e) ==
    /\ response' = [response EXCEPT ![r] = HttpExceptionResponse(ExceptClauses(e))]
    /\ pc' = [pc EXCEPT ![r] = "done"]

\* The clock advances.
Tick ==
    /\ now < MaxClock
    /\ now' = now + 1
    /\ UNCHANGED <<ContentVersion, ContentDocumentLink, request, pc, frame, calls,
                   pending, response, prior, composerVars>>

\* POST /generate-quote-pdf arrives; the framework validates the body against
\* GenerateQuotePdfRequest before the handler runs.
PostGenerateQuotePdf(r) ==
    /\ pc[r] = "idle"
    /\ \A q \in Requests : q < r => pc[q] # "idle"
    /\ \E body \in RequestBodies :
        /\ request' = [request EXCEPT ![r] = [received |-> TRUE] @@ body]
        /\ IF ValidationErrors(body) # {}
           THEN /\ response' = [response EXCEPT ![r] =
                                    ValidationResponse(ValidationErrors(body))]
                /\ pc' = [pc EXCEPT ![r] = "done"]
           ELSE /\ pc' = [pc EXCEPT ![r] = "handler"]
                /\ UNCHANGED response
    /\ prior' = [prior EXCEPT ![r] = {q \in Requests : pc[q] = "done"}]
    /\ UNCHANGED <<ContentVersion, ContentDocumentLink, now, frame, calls, pending,
                   composerVars>>

\* The handler starts: it builds opp_query and awaits data_api.query(opp_query).
IssueOpportunityQuery(r) ==
    /\ pc[r] = "handler"
    /\ Issue(r, "query Opportunity", "await opp_result")
    /\ UNCHANGED <<ContentVersion, ContentDocumentLink, now, request, frame, response,
                   prior, composerVars>>

\* A handler that retries the Opportunity query when it raises.
OpportunityQueryRaises_Retried(r) ==
    /\ pc[r] = "await opp_result"
    /\ calls[r] = <<"query Opportunity">>
    /\ calls' = [calls EXCEPT ![r] = Append(@, "query Opportunity")]
    /\ UNCHANGED <<ContentVersion, ContentDocumentLink, now, request, pc, frame, pending,
                   response, prior, composerVars>>

\* data_api.query(opp_query) raises.
OpportunityQueryRaises(r) ==
    /\ pc[r] = "await opp_result"
    /\ pending' = [pending EXCEPT ![r] = @ - 1]
    /\ frame' = [frame EXCEPT ![r] = ("e" :> Raised("ClientError", "query Opportunity")) @@ @]
    /\ Raise(r, Raised("ClientError", "query Opportunity"))
    /\ UNCHANGED <<ContentVersion, ContentDocumentLink, now, request, calls, prior,
                   composerVars>>

\* data_api.query(opp_query) returns: no record is NOT_FOUND, else the handler keeps
\* the record's fields and awaits the line-item query.
OpportunityQueryReturns(r) ==
    /\ pc[r] = "await opp_result"
    /\ LET records == QueryOpportunity(request[r].opportunityId)
       IN  IF records = <<>>
           THEN /\ frame' = [frame EXCEPT ![r] = ("opp_result" :> records) @@ @]
                /\ pending' = [pending EXCEPT ![r] = @ - 1]
                /\ Raise(r, NotFound)
                /\ UNCHANGED calls
           ELSE /\ frame' = [frame EXCEPT ![r] =
                                ("opp_result" :> records) @@ ("opp_record" :> records[1]) @@ @]
                /\ calls' = [calls EXCEPT ![r] = Append(@, "query QuoteLineItem")]
                /\ pc' = [pc EXCEPT ![r] = "await quote_lines_result"]
                /\ UNCHANGED <<pending, response>>
    /\ UNCHANGED <<ContentVersion, ContentDocumentLink, now, request, prior, composerVars>>

\* data_api.query(quote_lines_query) raises.
QuoteLinesQueryRaises(r) ==
    /\ pc[r] = "await quote_lines_result"
    /\ pending' = [pending EXCEPT ![r] = @ - 1]
    /\ frame' = [frame EXCEPT ![r] =
                    ("e" :> Raised("ClientError", "query QuoteLineItem")) @@ @]
    /\ Raise(r, Raised("ClientError", "query QuoteLineItem"))
    /\ UNCHANGED <<ContentVersion, ContentDocumentLink, now, request, calls, prior,
                   composerVars>>

\* data_api.query(quote_lines_query) returns; the handler goes on to the composer,
\* without suspending.
QuoteLinesQueryReturns(r) ==
    /\ pc[r] = "await quote_lines_result"
    /\ pending' = [pending EXCEPT ![r] = @ - 1]
    /\ frame' = [frame EXCEPT ![r] =
                    ("quote_lines" :> QueryQuoteLineItems(request[r].opportunityId)) @@ @]
    /\ pc' = [pc EXCEPT ![r] = "render"]
    /\ UNCHANGED <<ContentVersion, ContentDocumentLink, now, request, calls, response,
                   prior, composerVars>>

\* A handler that swallows the renderer's exception and uploads an empty file.
RenderRaises_Swallowed(r) ==
    /\ pc[r] = "render"
    /\ frame' = [frame EXCEPT ![r] =
                    ("e" :> Raised("RenderError", "render"))
                    @@ ("file_data" :> FileData(frame[r].opp_record, request[r].opportunityId,
                                                Timestamp(now), <<>>)) @@ @]
    /\ calls' = [calls EXCEPT ![r] = @ \o <<"render", "create ContentVersion">>]
    /\ pending' = [pending EXCEPT ![r] = @ + 1]
    /\ pc' = [pc EXCEPT ![r] = "await cv_response"]
    /\ UNCHANGED <<ContentVersion, ContentDocumentLink, now, request, response, prior,
                   composerVars>>

\* create_pdf_from_opportunity_data raises: the renderer fails, with one of the
\* exceptions it can raise.
RenderRaises(r) ==
    /\ pc[r] = "render"
    /\ calls' = [calls EXCEPT ![r] = Append(@, "render")]
    /\ \E type \in RendererExceptions :
        /\ frame' = [frame EXCEPT ![r] = ("e" :> Raised(type, "render")) @@ @]
        /\ Raise(r, Raised(type, "render"))
    /\ UNCHANGED <<ContentVersion, ContentDocumentLink, now, request, pending, prior,
                   composerVars>>

\* create_pdf_from_opportunity_data returns pdf_bytes; the handler reads the clock,
\* builds file_data and awaits data_api.create("ContentVersion", file_data).
RenderAndIssueCreateFile(r) ==
    /\ pc[r] = "render"
    /\ LET pdf_bytes == create_pdf_from_opportunity_data(
                            frame[r].opp_record, frame[r].quote_lines,
                            request[r].includeTerms, request[r].templateName,
                            request[r].customHeader, request[r].customFooter)
       IN  frame' = [frame EXCEPT ![r] =
                        ("file_data" :> FileData(frame[r].opp_record,
                                                 request[r].opportunityId,
                                                 Timestamp(now), pdf_bytes)) @@ @]
    /\ calls' = [calls EXCEPT ![r] = @ \o <<"render", "create ContentVersion">>]
    /\ pending' = [pending EXCEPT ![r] = @ + 1]
    /\ pc' = [pc EXCEPT ![r] = "await cv_response"]
    /\ UNCHANGED <<ContentVersion, ContentDocumentLink, now, request, response, prior,
                   composerVars>>

\* data_api.create("ContentVersion", file_data) raises: no record is created.
CreateFileRaises(r) ==
    /\ pc[r] = "await cv_response"
    /\ pending' = [pending EXCEPT ![r] = @ - 1]
    /\ frame' = [frame EXCEPT ![r] =
                    ("e" :> Raised("ClientError", "create ContentVersion")) @@ @]
    /\ Raise(r, Raised("ClientError", "create ContentVersion"))
    /\ UNCHANGED <<ContentVersion, ContentDocumentLink, now, request, calls, prior,
                   composerVars>>

\* data_api.create("ContentVersion", file_data) returns the new record's id; the
\* handler awaits the read-back query cd_query.
CreateFileReturns(r) ==
    /\ pc[r] = "await cv_response"
    /\ LET cv == NewContentVersion(ContentVersion, frame[r].file_data)
       IN  /\ ContentVersion' = Append(ContentVersion, cv)
           /\ frame' = [frame EXCEPT ![r] = ("content_version_id" :> cv.Id) @@ @]
    /\ calls' = [calls EXCEPT ![r] = Append(@, "query ContentVersion")]
    /\ pc' = [pc EXCEPT ![r] = "await cd_result"]
    /\ UNCHANGED <<ContentDocumentLink, now, request, pending, response, prior,
                   composerVars>>

\* data_api.query(cd_query) raises.
ReadBackRaises(r) ==
    /\ pc[r] = "await cd_result"
    /\ pending' = [pending EXCEPT ![r] = @ - 1]
    /\ frame' = [frame EXCEPT ![r] =
                    ("e" :> Raised("ClientError", "query ContentVersion")) @@ @]
    /\ Raise(r, Raised("ClientError", "query ContentVersion"))
    /\ UNCHANGED <<ContentVersion, ContentDocumentLink, now, request, calls, prior,
                   composerVars>>

\* data_api.query(cd_query) returns; the handler takes ContentDocumentId of the
\* first record (an IndexError if there is none), builds cdl_data and awaits
\* data_api.create("ContentDocumentLink", cdl_data).
ReadBackReturns(r) ==
    /\ pc[r] = "await cd_result"
    /\ LET records == QueryContentVersion(ContentVersion, frame[r].content_version_id)
       IN  IF records = <<>>
           THEN /\ frame' = [frame EXCEPT ![r] =
                                ("e" :> Raised("IndexError", "cd_result.records[0]")) @@ @]
                /\ pending' = [pending EXCEPT ![r] = @ - 1]
                /\ Raise(r, Raised("IndexError", "cd_result.records[0]"))
                /\ UNCHANGED calls
           ELSE /\ frame' = [frame EXCEPT ![r] =
                                ("content_document_id" :> records[1].ContentDocumentId)
                                @@ ("cdl_data" :> CdlData(records[1].ContentDocumentId,
                                                          request[r].opportunityId)) @@ @]
                /\ calls' = [calls EXCEPT ![r] = Append(@, "create ContentDocumentLink")]
                /\ pc' = [pc EXCEPT ![r] = "await cdl_response"]
                /\ UNCHANGED <<pending, response>>
    /\ UNCHANGED <<ContentVersion, ContentDocumentLink, now, request, prior, composerVars>>

\* A handler that deletes the file record when the create of the link record raises.
CreateLinkRaises_Compensated(r) ==
    /\ pc[r] = "await cdl_response"
    /\ pending' = [pending EXCEPT ![r] = @ - 1]
    /\ frame' = [frame EXCEPT ![r] =
                    ("e" :> Raised("ClientError", "create ContentDocumentLink")) @@ @]
    /\ ContentVersion' = SelectSeq(ContentVersion,
                                   LAMBDA f : f.Id # frame[r].content_version_id)
    /\ calls' = [calls EXCEPT ![r] = Append(@, "delete ContentVersion")]
    /\ Raise(r, Raised("ClientError", "create ContentDocumentLink"))
    /\ UNCHANGED <<ContentDocumentLink, now, request, prior, composerVars>>

\* data_api.create("ContentDocumentLink", cdl_data) raises: no record is created,
\* and the handler makes no further call.
CreateLinkRaises(r) ==
    /\ pc[r] = "await cdl_response"
    /\ pending' = [pending EXCEPT ![r] = @ - 1]
    /\ frame' = [frame EXCEPT ![r] =
                    ("e" :> Raised("ClientError", "create ContentDocumentLink")) @@ @]
    /\ Raise(r, Raised("ClientError", "create ContentDocumentLink"))
    /\ UNCHANGED <<ContentVersion, ContentDocumentLink, now, request, calls, prior,
                   composerVars>>

\* data_api.create("ContentDocumentLink", cdl_data) returns; the handler returns the
\* success result.
CreateLinkReturns(r) ==
    /\ pc[r] = "await cdl_response"
    /\ ContentDocumentLink' =
           Append(ContentDocumentLink,
                  NewContentDocumentLink(ContentDocumentLink, frame[r].cdl_data))
    /\ pending' = [pending EXCEPT ![r] = @ - 1]
    /\ response' = [response EXCEPT ![r] =
                       SuccessResponse(frame[r].content_document_id,
                                       frame[r].content_version_id)]
    /\ pc' = [pc EXCEPT ![r] = "done"]
    /\ UNCHANGED <<ContentVersion, now, request, frame, calls, prior, composerVars>>

Next ==
    \/ Tick
    \/ \E r \in Requests :
        \/ PostGenerateQuotePdf(r)
        \/ IssueOpportunityQuery(r)
        \/ OpportunityQueryRaises(r)
        \/ OpportunityQueryReturns(r)
        \/ QuoteLinesQueryRaises(r)
        \/ QuoteLinesQueryReturns(r)
        \/ RenderRaises(r)
        \/ RenderAndIssueCreateFile(r)
        \/ CreateFileRaises(r)
        \/ CreateFileReturns(r)
        \/ ReadBackRaises(r)
        \/ ReadBackReturns(r)
        \/ CreateLinkRaises(r)
        \/ CreateLinkReturns(r)

Spec == Init /\ [][Next]_vars

(***************************************************************************)
(* Properties of the handler.                                              *)
(***************************************************************************)
Done(r) == pc[r] = "done"
Succeeded(r) == Done(r) /\ response[r].status = 200
Failed(r) == Done(r) /\ response[r].status # 200

\* the errorCode the response carries, "" if it carries none
ErrorCode(resp) ==
    IF resp.status \in {404, 500} /\ "detail" \in DOMAIN resp.body
    THEN resp.body.detail.errorCode
    ELSE ""

\* the exception raised inside the handler came from this place
RaisedBy(r, site) == "e" \in DOMAIN frame[r] /\ frame[r].e.raised_by = site

Creates == {"create ContentVersion", "create ContentDocumentLink"}

IsPrefix(s, t) == Len(s) <= Len(t) /\ SubSeq(t, 1, Len(s)) = s

\* the request's body breaks the schema of GenerateQuotePdfRequest
Malformed(req) ==
    \/ Len(req.opportunityId) # 18
    \/ SubSeq(req.opportunityId, 1, 3) # <<"0", "0", "6">>
    \/ \E i \in 4..18 : req.opportunityId[i] \notin AlNum
    \/ (~IsNone(req.customHeader) /\ Len(req.customHeader[2]) > 200)
    \/ (~IsNone(req.customFooter) /\ Len(req.customFooter[2]) > 500)

\* C1: a request whose opportunityId is not "006" and 15 alphanumerics, or whose
\* customHeader or customFooter is too long, is answered with HTTP 400 and no
\* remote call is issued for it.
C1_MalformedAnswered400 ==
    \A r \in Requests :
        (Done(r) /\ Malformed(request[r])) =>
            response[r].status = 400 /\ calls[r] = <<>>

\* C2: when the fetch-one query returns no record the response is HTTP 404 with
\* errorCode NOT_FOUND and the only call of the request is that query.
C2_UnknownOpportunity404 ==
    \A r \in Requests :
        ("opp_result" \in DOMAIN frame[r] /\ frame[r].opp_result = <<>>) =>
            /\ Done(r)
            /\ response[r].status = 404
            /\ ErrorCode(response[r]) = "NOT_FOUND"
            /\ calls[r] = <<"query Opportunity">>
            /\ pending[r] = 0

C2_Witness ==
    \E r \in Requests :
        /\ Done(r)
        /\ MatchesPattern(request[r].opportunityId)
        /\ "opp_result" \in DOMAIN frame[r]
        /\ frame[r].opp_result = <<>>

\* C3: when the renderer raises, the response is HTTP 500 with errorCode
\* INTERNAL_ERROR and the request issues no create call, for the file record or
\* for the link record.
C3_RendererFailure500NoWrites ==
    \A r \in Requests :
        RaisedBy(r, "render") =>
            /\ Done(r)
            /\ response[r].status = 500
            /\ ErrorCode(response[r]) = "INTERNAL_ERROR"
            /\ \A i \in 1..Len(calls[r]) : calls[r][i] \notin Creates
            /\ calls[r][Len(calls[r])] = "render"

C3_Witness == \E r \in Requests : Done(r) /\ RaisedBy(r, "render")

\* C4: every non-2xx response has a JSON body whose top level is {status: "error",
\* message, errorCode, optional details}, errorCode being one of HTTP_ERROR,
\* NOT_FOUND, INTERNAL_ERROR, VALIDATION_ERROR.
C4_ErrorBodyShape ==
    \A r \in Requests :
        (Done(r) /\ response[r].status \notin 200..299) =>
            /\ {"status", "message", "errorCode"} \subseteq DOMAIN response[r].body
            /\ DOMAIN response[r].body \subseteq {"status", "message", "errorCode", "details"}
            /\ response[r].body.status = "error"
            /\ response[r].body.errorCode \in
                   {"HTTP_ERROR", "NOT_FOUND", "INTERNAL_ERROR", "VALIDATION_ERROR"}

\* the file record the request created, and the link records of its document
FileOf(r) == QueryContentVersion(ContentVersion, frame[r].content_version_id)[1]
LinksOf(r) ==
    {i \in 1..Len(ContentDocumentLink) :
        ContentDocumentLink[i].fields.ContentDocumentId = frame[r].content_document_id}

\* C5: two successful generations for the same Opportunity, one after the other,
\* give two distinct PathOnClient names and two distinct file/link record pairs.
C5_SequentialGenerationsDistinct ==
    \A r1 \in Requests : \A r2 \in Requests :
        (/\ Succeeded(r1) /\ Succeeded(r2)
         /\ r1 \in prior[r2]
         /\ request[r1].opportunityId = request[r2].opportunityId) =>
            /\ FileOf(r1).fields.PathOnClient # FileOf(r2).fields.PathOnClient
            /\ FileOf(r1).Id # FileOf(r2).Id
            /\ LinksOf(r1) \cap LinksOf(r2) = {}
            /\ LinksOf(r1) # {} /\ LinksOf(r2) # {}

\* C8 as stated: calls are issued one at a time, in the order of CallSequence and
\* never twice; a successful request issues all of CallSequence and a failed one a
\* proper prefix of it.
C8_FailedTraceProperPrefix ==
    \A r \in Requests :
        /\ pending[r] <= 1
        /\ IsPrefix(calls[r], CallSequence)
        /\ Succeeded(r) => calls[r] = CallSequence
        /\ Failed(r) => calls[r] # CallSequence

\* C8, amended: calls are issued one at a time, in the order of CallSequence and
\* never twice; a successful request issues all of CallSequence and a failed one a
\* prefix of it, which is the whole of CallSequence exactly when the call that
\* failed is the last one, the create of the link record.
C8_CallsInSequence ==
    \A r \in Requests :
        /\ pending[r] <= 1
        /\ IsPrefix(calls[r], CallSequence)
        /\ Done(r) => pending[r] = 0
        /\ Succeeded(r) => calls[r] = CallSequence
        /\ Failed(r) =>
              (calls[r] = CallSequence <=> RaisedBy(r, "create ContentDocumentLink"))

C8_Witness ==
    /\ \E r \in Requests : Succeeded(r)
    /\ \E r \in Requests : Failed(r) /\ calls[r] = CallSequence

\* C9: when the create of the link record fails after the create of the file record
\* succeeded, the response is HTTP 500 INTERNAL_ERROR, the file record stays in the
\* store with no link record for it, and the handler makes no compensating call.
C9_OrphanedFileRecord ==
    \A r \in Requests :
        RaisedBy(r, "create ContentDocumentLink") =>
            /\ Done(r)
            /\ response[r].status = 500
            /\ ErrorCode(response[r]) = "INTERNAL_ERROR"
            /\ QueryContentVersion(ContentVersion, frame[r].content_version_id) # <<>>
            /\ FileOf(r).fields = frame[r].file_data
            /\ LinksOf(r) = {}
            /\ calls[r] = CallSequence

C9_Witness ==
    \E r \in Requests : Done(r) /\ RaisedBy(r, "create ContentDocumentLink")

\* C10: when the handler returns a success result, the store holds the file record
\* named by contentVersionId, whose document is contentDocumentId, and a link record
\* from that document to the request's opportunityId.
C10_SuccessMeansBothRecords ==
    \A r \in Requests :
        Succeeded(r) =>
            /\ \E i \in 1..Len(ContentVersion) :
                  /\ ContentVersion[i].Id = response[r].body.contentVersionId
                  /\ ContentVersion[i].ContentDocumentId = response[r].body.contentDocumentId
            /\ \E i \in 1..Len(ContentDocumentLink) :
                  /\ ContentDocumentLink[i].fields.ContentDocumentId =
                         response[r].body.contentDocumentId
                  /\ ContentDocumentLink[i].fields.LinkedEntityId = request[r].opportunityId

C10_Witness == \E r \in Requests : Succeeded(r)

(***************************************************************************)
(* Direct calls of the composer, over the shapes a snapshot and its line   *)
(* items can take: every key absent, holding None, or holding a value.     *)
(***************************************************************************)
Absent == <<"absent">>

\* the dict holding the keys of f that are not marked Absent
Strip(f) == [k \in {j \in DOMAIN f : f[j] # Absent} |-> f[k]]

TextChoices(s) == {Absent, None, Str(s)}

AccountChoices ==
    {Absent, None, Dict(EmptyDict), Dict([Name |-> None]), Dict([Name |-> Str("Acme Corp")])}

OpportunitySnapshots ==
    {Strip(("Name" :> n) @@ ("Id" :> i) @@ ("StageName" :> s) @@ ("CloseDate" :> c)
           @@ ("Account" :> a) @@ ("Account.Name" :> f) @@ ("Amount" :> m)) :
        n \in TextChoices("Big Deal"), i \in TextChoices("006AAAAAAAAAAAAAAA"),
        s \in TextChoices("Prospecting"), c \in TextChoices("2025-01-31"),
        a \in AccountChoices, f \in TextChoices("Acme Flat"),
        m \in {Absent, Num(123456)}}

QuoteLineChoices ==
    {Dict([Name |-> Str("Widget"), Quantity |-> Num(2), UnitPrice |-> Num(5000),
           TotalPrice |-> Num(10000)]),
     Dict([fields |-> Dict([Name |-> None, TotalPrice |-> Num(25050)])]),
     Dict([Quantity |-> None, TotalPrice |-> None])}

QuoteLineSequences ==
    UNION {[1..n -> QuoteLineChoices] : n \in 0..MaxLines}

FormatChoices ==
    {[include_terms |-> FALSE, template_name |-> "standard",
      custom_header |-> None, custom_footer |-> None],
     [include_terms |-> TRUE, template_name |-> "bogus-value",
      custom_header |-> Str("Prepared for you"), custom_footer |-> Str("")]}

InitCompose ==
    /\ ContentVersion = <<>>
    /\ ContentDocumentLink = <<>>
    /\ now = 0
    /\ request = [r \in Requests |-> [received |-> FALSE]]
    /\ pc = [r \in Requests |-> "idle"]
    /\ frame = [r \in Requests |-> <<>>]
    /\ calls = [r \in Requests |-> <<>>]
    /\ pending = [r \in Requests |-> 0]
    /\ response = [r \in Requests |-> [status |-> 0]]
    /\ prior = [r \in Requests |-> {}]
    /\ \E o \in OpportunitySnapshots, q \in QuoteLineSequences, f \in FormatChoices :
           compose_args = [called |-> FALSE, opportunity_data |-> o, quote_lines |-> q,
                           options |-> f]
    /\ html_content = NotComposed

\* create_pdf_from_opportunity_data called on compose_args, up to the renderer
ComposeDocument ==
    /\ ~compose_args.called
    /\ "opportunity_data" \in DOMAIN compose_args
    /\ compose_args' = [compose_args EXCEPT !.called = TRUE]
    /\ html_content' = ComposeHtml(compose_args.opportunity_data, compose_args.quote_lines,
                                   compose_args.options.include_terms,
                                   compose_args.options.template_name,
                                   compose_args.options.custom_header,
                                   compose_args.options.custom_footer)
    /\ UNCHANGED handlerVars

NextCompose == ComposeDocument

SpecCompose == InitCompose /\ [][NextCompose]_vars

Composed == compose_args.called

\* the rows of the composed table body whose class is cls
Rows(cls) == {i \in 1..Len(html_content.tbody) : html_content.tbody[i].cls = cls}

\* C6: an empty line-item sequence gives a document with the "No line items
\* found" placeholder row and a total row showing 0.00.
C6_EmptyShowsPlaceholderAndTotal ==
    (Composed /\ compose_args.quote_lines = <<>>)
        => /\ Rows("placeholder") # {}
           /\ \E i \in Rows("total-row") : html_content.tbody[i].cells[2] = "$0.00"

\* The fields of the snapshot that are missing: absent as a key or None.
Missing(key) ==
    \/ key \notin DOMAIN compose_args.opportunity_data
    \/ IsNone(compose_args.opportunity_data[key])

\* C7: every text field missing from the snapshot, absent or None, shows as "N/A".
C7_MissingFieldsShowNA ==
    Composed =>
        /\ Missing("Name") => html_content.h1 = "Quote for N/A"
        /\ Missing("Id") => html_content.opp_id = "N/A"
        /\ Missing("StageName") => html_content.stage = "N/A"
        /\ Missing("CloseDate") => html_content.close_date = "N/A"
        /\ (Missing("Account") /\ Missing("Account.Name")) => html_content.account = "N/A"

====
